---- MODULE Spec2Model ----
(***************************************************************************)
(* A model of nix-channels.py: the release publisher (clone_channels), the *)
(* bulk mirror engine (update_channels with its worker pool), the          *)
(* resumable fetcher (download), the garbage collector (garbage_collect)   *)
(* and the orchestration in __main__.                                      *)
(*                                                                         *)
(* The working directory is the function fs from paths to what a reader    *)
(* would see there.  A path is a tuple <<dir, tag, kind, id, tmp>>:        *)
(*   <<c, t, "file", name, FALSE>>       releases/<c>@<t>/<name>           *)
(*   <<"store", 0, "narinfo", h, FALSE>> store/<h>.narinfo                 *)
(*   <<"store", 0, "nar", p, FALSE>>     store/<p>  (a payload URL)        *)
(*   <<"store", 0, "info", "nix-cache-info", FALSE>>                       *)
(* and the same tuple with tmp = TRUE is the hidden sibling .<name>.tmp.   *)
(***************************************************************************)
EXTENDS Integers, Sequences, FiniteSets, TLC

(* ------------------------------ bounds -------------------------------- *)

\* number of process runs explored one after the other
MaxRuns == 2
\* releases every channel publishes upstream, one after the other
MaxTag == 2
\* the days between two releases of a channel; two runs are on the same day
\* or 2 * DayStep days apart
DayStep == 20
\* faults the environment injects in one behaviour: a failed request, a
\* corrupted file, a failed oracle call
MaxFaults == 1

(* --------------------------- configuration ---------------------------- *)

\* the settings read from the environment (NIX_MIRROR_PATH_BATCH,
\* NIX_MIRROR_THREADS, NIX_MIRROR_RETAIN_DAYS, NIX_MIRROR_SAVE_STATS,
\* NIX_MIRROR_SET_CACHE_PRIORITY) for the runs explored: one store path per
\* oracle call and two worker threads; the other three have their defaults
PATH_BATCH == 1
THREADS == 2
RETAIN_DAYS == 30
SAVE_STATS == TRUE
SET_CACHE_PRIORITY == TRUE
\* Retry(total=5, ...)
RetryTotal == 5

ChannelList == <<"c1", "c2">>
Channels == {ChannelList[i] : i \in 1..Len(ChannelList)}
Tags == 1..MaxTag
Releases == Channels \X Tags

(* ------------------------- the upstream world ------------------------- *)

\* artifacts of the upstream binary cache, by the hash part of their store path
Hashes == {"h1", "h2", "h3", "h4"}

\* a store path /nix/store/<hash>-<name>
StorePathOf(h) == <<"/nix/store", h, "pkg">>

\* the URL field of the narinfo of h: h1, h2 and h4 have the same NAR
NarinfoURL(h) == IF h = "h3" THEN "nar/p3" ELSE "nar/p1"

\* the references of h (its closure, h included)
ClosureOf(h) == IF h = "h2" THEN <<"h2", "h3">> ELSE <<h>>

\* the lines of store-paths.xz of a release
StorePathsOf(c, t) ==
    IF c = "c1"
    THEN (IF t % 2 = 1 THEN <<StorePathOf("h2"), StorePathOf("h3")>>
                       ELSE <<StorePathOf("h1")>>)
    ELSE <<StorePathOf("h1"), StorePathOf("h4")>>

\* "Released on <date> from ..." of a release page, in days
ReleasedTime(c, t) == t * DayStep

\* what http_get(chan_location) finds: the release page, a 404, or a page
\* without the "Released on ... from" tagline
PageOf(c, t) ==
    IF c = "c1" THEN "ok"
    ELSE IF t % 3 = 2 THEN "404" ELSE IF t % 3 = 0 THEN "badtag" ELSE "ok"

\* the rows of the release page: file names, in order
ManifestOf(c, t) == <<"nixos.iso", "store-paths.xz", "binary-cache-url">>

(* ------------------------------ paths --------------------------------- *)

RelFile(c, t, name) == <<c, t, "file", name, FALSE>>
StoreFile(name) == <<"store", 0, name[1], name[2], FALSE>>
NarinfoName(h) == <<"narinfo", h>>
NarName(url) == <<"nar", url>>
InfoName == <<"info", "nix-cache-info">>

\* dest.parent / f'.{dest.name}.tmp'
TmpOf(dest) == [dest EXCEPT ![5] = TRUE]

RelNames == {".released-time", "store-paths.xz", "binary-cache-url",
             ".original-binary-cache-url"}
StoreNames == {NarinfoName(h) : h \in Hashes}
                \cup {NarName(NarinfoURL(h)) : h \in Hashes} \cup {InfoName}
FinalPaths == {RelFile(r[1], r[2], n) : r \in Releases, n \in RelNames}
                \cup {StoreFile(n) : n \in StoreNames}
Paths == FinalPaths \cup {TmpOf(p) : p \in FinalPaths}

\* path.split('/')[-1].split('-', 1)[0]
hash_part(path) == path[2]

(* ------------------------------ state --------------------------------- *)

VARIABLES
    run,                 \* how many times the process has been started
    now,                 \* datetime.now(), in days
    upstream,            \* x-amz-website-redirect-location of every channel
    COLLECT_GARBAGE,     \* NIX_MIRROR_COLLECT_GARBAGE of this run
    DELETE_OLD,          \* NIX_MIRROR_DELETE_OLD of this run
    faults,              \* faults the environment may still inject
    fs,                  \* content seen at every path of the working directory
    dirs,                \* directories that exist
    live,                \* working_dir/<channel>: tag it links to, 0 if absent
    staged,              \* working_dir/.<channel>.update, likewise
    pc,                  \* position of the main thread
    failure,             \* the global failure flag
    exitCode,            \* -1 while the process runs, then its exit status
    chanIdx,             \* position of the channel loop of clone_channels
    channels_to_update,
    rowIdx,              \* position of the manifest row loop
    has_hash_fail,
    updIdx,              \* position of the channel loop of update_channels
    has_cache_info,
    batchIdx,            \* i of the batch loop, as a 0-based offset
    todo,
    seen_paths,
    channel_failure,
    jobs,                \* state of every future of executor.map
    worker,              \* job and position of every worker thread
    resIdx,              \* how many results the main thread has consumed
    dl,                  \* the call of download() of every thread
    alive,
    closure,
    expand,              \* alive releases the closure loop has still to visit
    gcBatch,             \* i of the batch loop of garbage_collect
    sweep,               \* store entries the sweep loop has still to visit
    deleted,
    hist                 \* observations of the run, read by the properties only

diskV == <<fs, dirs, live, staged>>
cfgV == <<run, now, upstream, COLLECT_GARBAGE, DELETE_OLD>>
envV == <<run, now, upstream, COLLECT_GARBAGE, DELETE_OLD, faults>>
cloneV == <<chanIdx, channels_to_update, rowIdx, has_hash_fail>>
updV == <<updIdx, has_cache_info, batchIdx, todo, seen_paths, channel_failure>>
poolV == <<jobs, worker, resIdx>>
gcV == <<alive, closure, expand, gcBatch, sweep, deleted>>
vars == <<run, now, upstream, COLLECT_GARBAGE, DELETE_OLD, faults, fs, dirs, live,
          staged, pc, failure, exitCode, chanIdx, channels_to_update, rowIdx,
          has_hash_fail, updIdx, has_cache_info, batchIdx, todo, seen_paths,
          channel_failure, jobs, worker, resIdx, dl, alive, closure, expand,
          gcBatch, sweep, deleted, hist>>

Main == 0
Workers == 1..THREADS
Threads == {Main} \cup Workers

NoPath == <<"", 0, "", "", FALSE>>
IdleDl == [pc |-> "idle", dest |-> NoPath, total |-> 0, attempts |-> 0,
           exc |-> "none"]
IdleWorker == [job |-> 0, pos |-> 0]

Exists(path) == fs[path] # "none"

\* the environment injects a fault
Fault == faults > 0 /\ faults' = faults - 1
NoFault == faults' = faults

DirOf(path) == <<path[1], path[2]>>
StoreDir == <<"store", 0>>
StatsDir == <<"stats", 0>>

\* what the observations of a run start from
NewHist(l, s, clean, changed) ==
    [called |-> {}, recalled |-> {}, prevLive |-> l, prevStaged |-> s,
     prevClean |-> clean, upstreamChanged |-> changed, clean |-> TRUE,
     oracleFailed |-> {}, unpromoted |-> {}, promoted |-> {}, badFiles |-> {},
     gcBefore |-> <<>>, gcRan |-> FALSE, gcCalled |-> FALSE,
     poolExc |-> {}, failedChan |-> {}]

\* download(url, dest) is called
Called(h, dest) ==
    [h EXCEPT !.called = @ \cup {dest},
              !.recalled = IF dest \in h.called THEN @ \cup {dest} ELSE @]

Init ==
    /\ run = 1
    /\ now = DayStep
    /\ upstream = [c \in Channels |-> 1]
    /\ COLLECT_GARBAGE \in BOOLEAN
    /\ DELETE_OLD \in (IF COLLECT_GARBAGE THEN BOOLEAN ELSE {TRUE})
    /\ faults = MaxFaults
    /\ fs = [p \in Paths |-> "none"]
    /\ dirs = {}
    /\ live = [c \in Channels |-> 0]
    /\ staged = [c \in Channels |-> 0]
    /\ pc = "start"
    /\ failure = FALSE
    /\ exitCode = -1
    /\ chanIdx = 0
    /\ channels_to_update = <<>>
    /\ rowIdx = 0
    /\ has_hash_fail = FALSE
    /\ updIdx = 0
    /\ has_cache_info = FALSE
    /\ batchIdx = 0
    /\ todo = <<>>
    /\ seen_paths = {}
    /\ channel_failure = FALSE
    /\ jobs = <<>>
    /\ worker = [w \in Workers |-> IdleWorker]
    /\ resIdx = 0
    /\ dl = [t \in Threads |-> IdleDl]
    /\ alive = {}
    /\ closure = {}
    /\ expand = {}
    /\ gcBatch = 0
    /\ sweep = {}
    /\ deleted = 0
    /\ hist = NewHist(live, staged, FALSE, TRUE)

(* ---------------------------- download() ------------------------------ *)

\* download(url, dest) is entered: mkdir -p of the parent, retry = retries
DlCall(dest) ==
    [pc |-> "get", dest |-> dest, total |-> RetryTotal, attempts |-> 0,
     exc |-> "none"]

\* urllib3's Retry.increment(): a new Retry with total - 1, or MaxRetryError
\* once that is negative; it never returns None
RetryIncrement(total) ==
    IF total - 1 < 0 THEN [kind |-> "MaxRetryError", total |-> total - 1]
                     ELSE [kind |-> "Retry", total |-> total - 1]

\* http_get(url, stream=True); res.raise_for_status(); download_dest.open('wb')
DlGet(t) ==
    /\ dl[t].pc = "get"
    /\ \/ /\ dl' = [dl EXCEPT ![t].pc = "body", ![t].attempts = @ + 1]
          /\ fs' = [fs EXCEPT ![TmpOf(dl[t].dest)] = "partial"]
          /\ NoFault
       \/ /\ Fault
          /\ \E e \in {"ConnectionError", "HTTPError"} :
                dl' = [dl EXCEPT ![t].pc = "raised", ![t].exc = e,
                                 ![t].attempts = @ + 1]
          /\ fs' = fs
    /\ UNCHANGED <<dirs, live, staged, cfgV, pc, failure, exitCode, cloneV,
                   updV, poolV, gcV, hist>>

\* what the server may send as the body of the file at dest, when all of it
\* arrives: a manifest file can differ from the hash the release page
\* declares, and the text served as a narinfo can have a line without ': '
Served(dest) ==
    IF dest[3] \in {"file", "narinfo"} THEN {"good", "bad"} ELSE {"good"}

\* the body is streamed to the temp file and its size is compared
DlBodyOk(t) ==
    /\ dl[t].pc = "body"
    /\ \E data \in Served(dl[t].dest) :
          /\ fs' = [fs EXCEPT ![TmpOf(dl[t].dest)] = data]
          /\ IF data = "good" THEN NoFault ELSE Fault
    /\ dl' = [dl EXCEPT ![t].pc = "written"]
    /\ UNCHANGED <<dirs, live, staged, cfgV, pc, failure, exitCode, cloneV,
                   updV, poolV, gcV, hist>>

\* requests.exceptions.ConnectionError while streaming, or WrongSize:
\* next_retry = retry.increment(...); the exception of increment() leaves
\* download() as it is, None sets the failure flag and raises e again.
\* What made one attempt of a call fail may last: the later attempts of the
\* same call can fail with no new fault.
DlBodyFail(t) ==
    /\ dl[t].pc = "body"
    /\ IF dl[t].total < RetryTotal THEN NoFault ELSE Fault
    /\ LET next_retry == RetryIncrement(dl[t].total)
       IN  CASE next_retry.kind = "MaxRetryError" ->
                  /\ dl' = [dl EXCEPT ![t].pc = "raised",
                                      ![t].exc = "MaxRetryError"]
                  /\ failure' = failure
             [] next_retry.kind = "None" ->
                  /\ dl' = [dl EXCEPT ![t].pc = "raised",
                                      ![t].exc = "ConnectionError"]
                  /\ failure' = TRUE
             [] OTHER ->
                  /\ dl' = [dl EXCEPT ![t].pc = "get",
                                      ![t].total = next_retry.total]
                  /\ failure' = failure
    /\ UNCHANGED <<diskV, cfgV, pc, exitCode, cloneV, updV, poolV, gcV, hist>>

\* download_dest.rename(dest)
DlRename(t) ==
    /\ dl[t].pc = "written"
    /\ fs' = [fs EXCEPT ![dl[t].dest] = fs[TmpOf(dl[t].dest)],
                        ![TmpOf(dl[t].dest)] = "none"]
    /\ dl' = [dl EXCEPT ![t].pc = "done"]
    /\ UNCHANGED <<dirs, live, staged, envV, pc, failure, exitCode, cloneV,
                   updV, poolV, gcV, hist>>

Download(t) == DlGet(t) \/ DlBodyOk(t) \/ DlBodyFail(t) \/ DlRename(t)

(* ------------------------------ __main__ ------------------------------ *)

\* the channels a failure at this point is a failure of: the channel of the
\* loop in hand, or every channel for get_channels() and for nix-cache-info
InHand ==
    IF chanIdx = 0 \/ pc = "upd_info_dl" THEN Channels
    ELSE IF updIdx = 0 THEN {ChannelList[chanIdx]}
    ELSE IF updIdx <= Len(channels_to_update) THEN {channels_to_update[updIdx]}
    ELSE {}

\* an except block that ends the process at once
MainExceptExits ==
    /\ failure' = TRUE
    /\ pc' = "exit"
    /\ hist' = [hist EXCEPT !.clean = FALSE, !.failedChan = @ \cup InHand]

\* except Exception as e: failure = True; then the garbage collection
MainExcept ==
    /\ failure' = TRUE
    /\ pc' = "gc_check"
    /\ hist' = [hist EXCEPT !.clean = FALSE, !.failedChan = @ \cup InHand]

\* clone_channels() is entered: get_channels() lists the channels
MainStart ==
    /\ pc = "start"
    /\ \/ /\ pc' = "clone_loop"
          /\ failure' = failure
          /\ chanIdx' = 1
          /\ channels_to_update' = <<>>
          /\ hist' = hist
          /\ NoFault
       \/ /\ Fault
          /\ MainExcept
          /\ UNCHANGED <<chanIdx, channels_to_update>>
    /\ UNCHANGED <<diskV, cfgV, exitCode, rowIdx, has_hash_fail, updV, poolV,
                   dl, gcV>>

\* an exception of download() reaches __main__ from clone_channels or from
\* the sequential part of update_channels
MainRaise ==
    /\ pc \in {"clone_dl", "upd_info_dl"}
    /\ dl[Main].pc = "raised"
    /\ MainExcept
    /\ dl' = [dl EXCEPT ![Main] = IdleDl]
    /\ UNCHANGED <<diskV, envV, exitCode, cloneV, updV, poolV, gcV>>

(* -------------------------- clone_channels() -------------------------- *)

Chan == ChannelList[chanIdx]
Target == upstream[Chan]
ReleasePath(name) == RelFile(Chan, Target, name)

\* a verification that accepts every file
HashMatchesAlways(path) == TRUE

\* file_sha256(path) == file_hash, for a file of the release page
HashMatches(path) == fs[path] = "good"

\* the destination of a row of the release page
RowDest(file_name) ==
    IF file_name = "binary-cache-url" THEN ".original-binary-cache-url"
                                      ELSE file_name

IsImage(file_name) == file_name = "nixos.iso"

\* a publisher that does not look at the live pointer
AlreadyLiveNever(c, t) == FALSE

\* chan_path.is_symlink() and os.readlink(str(chan_path)) == release_target
AlreadyLive(c, t) == live[c] = t

\* a publisher that does not look at the staged pointer
AlreadyStagedNever(c, t) == FALSE

\* the same test of chan_path_update
AlreadyStaged(c, t) == staged[c] = t

\* one iteration of the channel loop up to the first write, or the return
CloneChannel ==
    /\ pc = "clone_loop"
    /\ IF chanIdx > Len(ChannelList)
       THEN \* return channels_to_update; update_channels(channels)
            /\ pc' = "upd_loop"
            /\ updIdx' = 1
            /\ has_cache_info' = FALSE
            /\ UNCHANGED <<diskV, failure, cloneV, hist, faults>>
       ELSE /\ UNCHANGED <<updIdx, has_cache_info>>
            /\ IF AlreadyLive(Chan, Target)
               THEN /\ chanIdx' = chanIdx + 1
                    /\ UNCHANGED <<diskV, pc, failure, channels_to_update,
                                   rowIdx, has_hash_fail, hist, faults>>
               ELSE IF AlreadyStaged(Chan, Target)
               THEN /\ channels_to_update' = Append(channels_to_update, Chan)
                    /\ chanIdx' = chanIdx + 1
                    /\ UNCHANGED <<diskV, pc, failure, rowIdx, has_hash_fail,
                                   hist, faults>>
               ELSE \* release_res = http_get(chan_location)
                    \/ /\ PageOf(Chan, Target) \in {"404", "badtag"}
                       /\ chanIdx' = chanIdx + 1
                       /\ UNCHANGED <<diskV, pc, failure, channels_to_update,
                                      rowIdx, has_hash_fail, hist, faults>>
                    \/ /\ Fault
                       /\ MainExcept
                       /\ UNCHANGED <<diskV, cloneV>>
                    \/ /\ PageOf(Chan, Target) = "ok"
                       /\ dirs' = dirs \cup {<<Chan, Target>>}
                       /\ fs' = [fs EXCEPT
                                   ![ReleasePath(".released-time")] = "partial"]
                       /\ pc' = "clone_time"
                       /\ UNCHANGED <<live, staged, failure, cloneV, hist,
                                      faults>>
    /\ UNCHANGED <<cfgV, exitCode, batchIdx, todo, seen_paths, channel_failure,
                   poolV, dl, gcV>>

\* f.write(released_time); has_hash_fail = False
CloneWriteTime ==
    /\ pc = "clone_time"
    /\ fs' = [fs EXCEPT ![ReleasePath(".released-time")] = "time"]
    /\ has_hash_fail' = FALSE
    /\ rowIdx' = 1
    /\ pc' = "clone_rows"
    /\ UNCHANGED <<dirs, live, staged, envV, failure, exitCode, chanIdx,
                   channels_to_update, updV, poolV, dl, gcV, hist>>

\* the rewritten URL written over the preserved upstream value
CloneMarkerDestWrong == ReleasePath(".original-binary-cache-url")

\* release_path / 'binary-cache-url'
CloneMarkerDest == ReleasePath("binary-cache-url")

\* one row of the release page, or the end of the rows
CloneRow ==
    /\ pc = "clone_rows"
    /\ LET rows == ManifestOf(Chan, Target)
       IN  IF rowIdx > Len(rows)
           THEN \* (release_path / 'binary-cache-url').write_text(...) opens
                /\ fs' = [fs EXCEPT ![CloneMarkerDest] = "partial"]
                /\ pc' = "clone_marker"
                /\ UNCHANGED <<rowIdx, dl, hist>>
           ELSE LET file_name == rows[rowIdx]
                IN  IF \/ IsImage(file_name)
                       \/ /\ Exists(ReleasePath(file_name))
                          /\ HashMatches(ReleasePath(file_name))
                    THEN /\ rowIdx' = rowIdx + 1
                         /\ UNCHANGED <<fs, pc, dl, hist>>
                    ELSE /\ dl' = [dl EXCEPT ![Main] =
                                     DlCall(ReleasePath(RowDest(file_name)))]
                         /\ hist' = Called(hist,
                                            ReleasePath(RowDest(file_name)))
                         /\ pc' = "clone_dl"
                         /\ UNCHANGED <<fs, rowIdx>>
    /\ UNCHANGED <<dirs, live, staged, envV, failure, exitCode, chanIdx,
                   channels_to_update, has_hash_fail, updV, poolV, gcV>>

\* download() returned: if file_sha256(release_path / dest) != file_hash
CloneVerify ==
    /\ pc = "clone_dl"
    /\ dl[Main].pc = "done"
    /\ IF HashMatches(dl[Main].dest)
       THEN UNCHANGED <<failure, has_hash_fail>>
       ELSE /\ failure' = TRUE
            /\ has_hash_fail' = TRUE
    /\ hist' = IF fs[dl[Main].dest] = "good" THEN hist
               ELSE [hist EXCEPT !.clean = FALSE,
                                 !.failedChan = @ \cup InHand,
                                 !.badFiles = @ \cup {dl[Main].dest}]
    /\ rowIdx' = rowIdx + 1
    /\ dl' = [dl EXCEPT ![Main] = IdleDl]
    /\ pc' = "clone_rows"
    /\ UNCHANGED <<diskV, envV, exitCode, chanIdx, channels_to_update, updV,
                   poolV, gcV>>

\* write_text(binary_cache_url) writes and closes the marker
WriteMarker(files, path) == [files EXCEPT ![path] = "mirror"]

CloneWriteMarker ==
    /\ pc = "clone_marker"
    /\ fs' = WriteMarker(fs, CloneMarkerDest)
    /\ pc' = "clone_stage"
    /\ UNCHANGED <<dirs, live, staged, envV, failure, exitCode, cloneV, updV,
                   poolV, dl, gcV, hist>>

\* if has_hash_fail: ... else: channels_to_update.append(channel) and
\* chan_path_update.unlink() if it exists
CloneStage ==
    /\ pc = "clone_stage"
    /\ IF has_hash_fail
       THEN /\ chanIdx' = chanIdx + 1
            /\ pc' = "clone_loop"
            /\ UNCHANGED <<staged, channels_to_update>>
       ELSE /\ channels_to_update' = Append(channels_to_update, Chan)
            /\ staged' = [staged EXCEPT ![Chan] = 0]
            /\ pc' = "clone_symlink"
            /\ UNCHANGED chanIdx
    /\ UNCHANGED <<fs, dirs, live, envV, failure, exitCode, rowIdx,
                   has_hash_fail, updV, poolV, dl, gcV, hist>>

\* chan_path_update.symlink_to(release_target)
CloneSymlink ==
    /\ pc = "clone_symlink"
    /\ staged' = [staged EXCEPT ![Chan] = Target]
    /\ chanIdx' = chanIdx + 1
    /\ pc' = "clone_loop"
    /\ UNCHANGED <<fs, dirs, live, envV, failure, exitCode, rowIdx,
                   channels_to_update, has_hash_fail, updV, poolV, dl, gcV,
                   hist>>

(* ------------------------- update_channels() -------------------------- *)

UpdChan == channels_to_update[updIdx]
\* what chan_path_update resolves to
UpdTag == staged[UpdChan]

RECURSIVE Dedup(_, _)
Dedup(seq, k) ==
    IF k > Len(seq) THEN <<>>
    ELSE IF \E j \in 1..(k - 1) : seq[j] = seq[k] THEN Dedup(seq, k + 1)
    ELSE <<seq[k]>> \o Dedup(seq, k + 1)

RECURSIVE Expand(_, _)
Expand(batch, k) ==
    IF k > Len(batch) THEN <<>>
    ELSE ClosureOf(hash_part(batch[k])) \o Expand(batch, k + 1)

\* the store paths `nix path-info --recursive` prints for a batch
PathInfoPaths(batch) ==
    LET hs == Dedup(Expand(batch, 1), 1)
    IN  [k \in 1..Len(hs) |-> StorePathOf(hs[k])]

\* json.loads(process.stdout) of `nix path-info --recursive --json`
PathInfoJson(batch) ==
    LET ps == PathInfoPaths(batch)
    IN  [k \in 1..Len(ps) |->
            [path |-> ps[k], url |-> NarinfoURL(hash_part(ps[k]))]]

\* paths[i : i + PATH_BATCH], i a 0-based offset
Batch(paths, i) ==
    SubSeq(paths, i + 1, IF i + PATH_BATCH < Len(paths) THEN i + PATH_BATCH
                                                         ELSE Len(paths))

\* a one_todo that does not look at seen_paths
OneTodoUnseen(info, seen) ==
    <<NarName(info.url), NarinfoName(hash_part(info.path))>>

\* [name for name in [info['url'], f'{ha}.narinfo'] if name not in seen_paths]
OneTodo(info, seen) ==
    SelectSeq(<<NarName(info.url), NarinfoName(hash_part(info.path))>>,
              LAMBDA name : name \notin seen)

SetOf(seq) == {seq[k] : k \in 1..Len(seq)}

\* the loop over infos: todo and seen_paths after the infos from k on
RECURSIVE AddInfos(_, _, _, _)
AddInfos(infos, k, td, seen) ==
    IF k > Len(infos) THEN [todo |-> td, seen_paths |-> seen]
    ELSE LET one_todo == OneTodo(infos[k], seen)
         IN  AddInfos(infos, k + 1,
                      IF one_todo # <<>> THEN Append(td, one_todo) ELSE td,
                      seen \cup SetOf(one_todo))

\* the head of the channel loop: the nix-cache-info download of the first
\* channel, or the return to __main__
UpdChannel ==
    /\ pc = "upd_loop"
    /\ IF updIdx > Len(channels_to_update)
       THEN /\ pc' = "gc_check"
            /\ UNCHANGED <<dirs, dl, hist>>
       ELSE IF ~has_cache_info
       THEN /\ dl' = [dl EXCEPT ![Main] = DlCall(StoreFile(InfoName))]
            /\ dirs' = dirs \cup {StoreDir}
            /\ hist' = Called(hist, StoreFile(InfoName))
            /\ pc' = "upd_info_dl"
       ELSE /\ pc' = "upd_paths"
            /\ UNCHANGED <<dirs, dl, hist>>
    /\ UNCHANGED <<fs, live, staged, envV, failure, exitCode, cloneV, updV,
                   poolV, gcV>>

\* download() of nix-cache-info returned; open(info_file_path, 'w')
UpdInfoOpen ==
    /\ pc = "upd_info_dl"
    /\ dl[Main].pc = "done"
    /\ dl' = [dl EXCEPT ![Main] = IdleDl]
    /\ IF SET_CACHE_PRIORITY
       THEN /\ fs' = [fs EXCEPT ![StoreFile(InfoName)] = "partial"]
            /\ pc' = "upd_info_write"
            /\ UNCHANGED has_cache_info
       ELSE /\ has_cache_info' = TRUE
            /\ pc' = "upd_paths"
            /\ UNCHANGED fs
    /\ UNCHANGED <<dirs, live, staged, envV, failure, exitCode, cloneV, updIdx,
                   batchIdx, todo, seen_paths, channel_failure, poolV, gcV,
                   hist>>

\* cache_info_file.write(cache_info_data); has_cache_info = True
UpdInfoWrite ==
    /\ pc = "upd_info_write"
    /\ fs' = [fs EXCEPT ![StoreFile(InfoName)] = "prio"]
    /\ has_cache_info' = TRUE
    /\ pc' = "upd_paths"
    /\ UNCHANGED <<dirs, live, staged, envV, failure, exitCode, cloneV, updIdx,
                   batchIdx, todo, seen_paths, channel_failure, poolV, dl, gcV,
                   hist>>

\* lzma.open(chan_path_update / 'store-paths.xz'); todo = []; ...
UpdReadPaths ==
    /\ pc = "upd_paths"
    /\ IF fs[RelFile(UpdChan, UpdTag, "store-paths.xz")] = "good"
       THEN /\ todo' = <<>>
            /\ seen_paths' = {}
            /\ channel_failure' = FALSE
            /\ batchIdx' = 0
            /\ pc' = "upd_batch"
            /\ UNCHANGED <<failure, hist>>
       ELSE /\ MainExcept
            /\ UNCHANGED <<todo, seen_paths, channel_failure, batchIdx>>
    /\ UNCHANGED <<diskV, envV, exitCode, cloneV, updIdx, has_cache_info,
                   poolV, dl, gcV>>

\* one batch of the oracle, or the else of the for loop: the statistics and
\* executor.map(), which submits every job
UpdBatch ==
    /\ pc = "upd_batch"
    /\ LET paths == StorePathsOf(UpdChan, UpdTag)
       IN  IF batchIdx >= Len(paths)
           THEN /\ dirs' = IF SAVE_STATS THEN dirs \cup {StatsDir} ELSE dirs
                /\ jobs' = [k \in 1..Len(todo) |-> "pending"]
                /\ resIdx' = 0
                /\ pc' = "upd_pool"
                /\ UNCHANGED <<batchIdx, todo, seen_paths, channel_failure,
                               hist, faults>>
           ELSE \/ \* process.returncode != 0
                   /\ Fault
                   /\ channel_failure' = TRUE
                   /\ hist' = [hist EXCEPT !.clean = FALSE,
                                           !.failedChan = @ \cup InHand,
                                           !.oracleFailed = @ \cup {UpdChan}]
                   /\ pc' = "upd_finish"
                   /\ UNCHANGED <<dirs, jobs, resIdx, batchIdx, todo,
                                  seen_paths>>
                \/ LET r == AddInfos(PathInfoJson(Batch(paths, batchIdx)), 1,
                                     todo, seen_paths)
                   IN  /\ todo' = r.todo
                       /\ seen_paths' = r.seen_paths
                       /\ batchIdx' = batchIdx + PATH_BATCH
                       /\ UNCHANGED <<dirs, jobs, resIdx, pc, channel_failure,
                                      hist, faults>>
    /\ UNCHANGED <<fs, live, staged, cfgV, failure, exitCode, cloneV, updIdx,
                   has_cache_info, worker, dl, gcV>>

(* --------------------- the worker pool: try_mirror -------------------- *)

PoolOpen == pc \in {"upd_pool", "upd_join", "upd_raise"}
Pending == {k \in 1..Len(jobs) : jobs[k] = "pending"}
IdleWorkers == {w \in Workers : worker[w].job = 0}
Min(S) == CHOOSE x \in S : \A y \in S : x <= y

\* an idle thread of the pool takes the job at the head of the work queue
WorkerTake(w) ==
    /\ PoolOpen
    /\ IdleWorkers # {} /\ w = Min(IdleWorkers)
    /\ Pending # {}
    /\ jobs' = [jobs EXCEPT ![Min(Pending)] = "running"]
    /\ worker' = [worker EXCEPT ![w] = [job |-> Min(Pending), pos |-> 1]]
    /\ UNCHANGED <<diskV, envV, pc, failure, exitCode, cloneV, updV, resIdx,
                   dl, gcV, hist>>

\* what try_mirror returns when download() raises exc: False for the two
\* exceptions it catches, the exception itself otherwise
TryMirrorCatches(exc) == exc \in {"ConnectionError", "WrongSize"}

\* the loop over the paths of a job: skip an existing file, download the
\* next one, or return True after the last
WorkerPath(w) ==
    /\ worker[w].job # 0
    /\ dl[w].pc = "idle"
    /\ LET job == todo[worker[w].job]
           pos == worker[w].pos
       IN  IF pos > Len(job)
           THEN /\ jobs' = [jobs EXCEPT ![worker[w].job] = "True"]
                /\ worker' = [worker EXCEPT ![w] = IdleWorker]
                /\ UNCHANGED <<dl, hist>>
           ELSE IF Exists(StoreFile(job[pos]))
           THEN /\ worker' = [worker EXCEPT ![w].pos = pos + 1]
                /\ UNCHANGED <<jobs, dl, hist>>
           ELSE /\ dl' = [dl EXCEPT ![w] = DlCall(StoreFile(job[pos]))]
                /\ hist' = Called(hist, StoreFile(job[pos]))
                /\ UNCHANGED <<jobs, worker>>
    /\ UNCHANGED <<diskV, envV, pc, failure, exitCode, cloneV, updV, resIdx,
                   gcV>>

\* download() returned to try_mirror
WorkerDownloaded(w) ==
    /\ worker[w].job # 0
    /\ dl[w].pc = "done"
    /\ dl' = [dl EXCEPT ![w] = IdleDl]
    /\ worker' = [worker EXCEPT ![w].pos = @ + 1]
    /\ UNCHANGED <<diskV, envV, pc, failure, exitCode, cloneV, updV, jobs,
                   resIdx, gcV, hist>>

\* download() raised in try_mirror
WorkerRaised(w) ==
    /\ worker[w].job # 0
    /\ dl[w].pc = "raised"
    /\ jobs' = [jobs EXCEPT ![worker[w].job] =
                  IF TryMirrorCatches(dl[w].exc) THEN "False" ELSE "raised"]
    /\ dl' = [dl EXCEPT ![w] = IdleDl]
    /\ worker' = [worker EXCEPT ![w] = IdleWorker]
    /\ hist' = [hist EXCEPT !.clean = FALSE, !.failedChan = @ \cup InHand,
                            !.poolExc = @ \cup {dl[w].exc}]
    /\ UNCHANGED <<diskV, envV, pc, failure, exitCode, cloneV, updV, resIdx,
                   gcV>>

\* all(results): the main thread takes the next result in the order of todo;
\* a False ends all(), an exception ends the generator of executor.map,
\* which cancels the futures that have not started
PoolResult ==
    /\ pc = "upd_pool"
    /\ IF resIdx = Len(jobs)
       THEN /\ pc' = "upd_join"
            /\ UNCHANGED <<jobs, resIdx, channel_failure>>
       ELSE LET res == jobs[resIdx + 1]
            IN  /\ res \in {"True", "False", "raised"}
                /\ CASE res = "True" ->
                          /\ resIdx' = resIdx + 1
                          /\ UNCHANGED <<pc, jobs, channel_failure>>
                     [] res = "False" ->
                          /\ channel_failure' = TRUE
                          /\ pc' = "upd_join"
                          /\ UNCHANGED <<jobs, resIdx>>
                     [] res = "raised" ->
                          /\ jobs' = [k \in 1..Len(jobs) |->
                                        IF jobs[k] = "pending" THEN "cancelled"
                                                               ELSE jobs[k]]
                          /\ pc' = "upd_raise"
                          /\ UNCHANGED <<resIdx, channel_failure>>
    /\ UNCHANGED <<diskV, envV, failure, exitCode, cloneV, updIdx,
                   has_cache_info, batchIdx, todo, seen_paths, worker, dl, gcV,
                   hist>>

AllJobsOver == \A k \in 1..Len(jobs) : jobs[k] \notin {"pending", "running"}

\* the end of the with block: executor.shutdown(wait=True)
PoolJoin ==
    /\ pc \in {"upd_join", "upd_raise"}
    /\ AllJobsOver
    /\ IF pc = "upd_join"
       THEN /\ pc' = "upd_finish"
            /\ UNCHANGED <<failure, hist>>
       ELSE MainExcept
    /\ UNCHANGED <<diskV, envV, exitCode, cloneV, updV, poolV, dl, gcV>>

\* chan_path_update.rename(chan_path), unless channel_failure
Promote(l, s, c) == [live |-> [l EXCEPT ![c] = s[c]],
                     staged |-> [s EXCEPT ![c] = 0]]

\* a promotion that does not look at channel_failure
ChannelFailedNever == FALSE

\* if channel_failure:
ChannelFailed == channel_failure

UpdFinish ==
    /\ pc = "upd_finish"
    /\ IF ChannelFailed
       THEN /\ UNCHANGED <<live, staged>>
            /\ hist' = [hist EXCEPT !.unpromoted = @ \cup {UpdChan}]
       ELSE /\ live' = Promote(live, staged, UpdChan).live
            /\ staged' = Promote(live, staged, UpdChan).staged
            /\ hist' = [hist EXCEPT !.promoted = @ \cup {UpdChan}]
    /\ updIdx' = updIdx + 1
    /\ pc' = "upd_loop"
    /\ UNCHANGED <<fs, dirs, envV, failure, exitCode, cloneV, has_cache_info,
                   batchIdx, todo, seen_paths, channel_failure, poolV, dl, gcV>>

(* -------------------------- garbage_collect() ------------------------- *)

\* the release directories that have the completion marker
Finished == {r \in dirs \cap Releases :
                Exists(RelFile(r[1], r[2], "binary-cache-url"))}

\* released_date >= time_threshold
Recent(r, today) == ReleasedTime(r[1], r[2]) >= today - RETAIN_DAYS

\* latest[channel]: the finished release of the channel with the greatest
\* released date
Latest(c) ==
    {r \in Finished : /\ r[1] = c
                      /\ \A q \in Finished :
                            q[1] = c => ReleasedTime(q[1], q[2])
                                            <= ReleasedTime(r[1], r[2])}

\* alive, after alive.update(latest.values())
Alive(today) ==
    {r \in Finished : Recent(r, today)} \cup UNION {Latest(c) : c \in Channels}

\* an uncaught exception of garbage_collect() ends the process with status 1
GcRaise ==
    /\ pc' = "exited"
    /\ exitCode' = 1

\* if COLLECT_GARBAGE: the loop over the release directories
GcScan ==
    /\ pc = "gc_check"
    /\ IF ~COLLECT_GARBAGE
       THEN /\ pc' = "exit"
            /\ UNCHANGED <<exitCode, gcV, hist>>
       ELSE IF dirs \cap Releases = {}
       THEN \* (working_dir / RELEASES_DIR).iterdir(): no such directory
            /\ GcRaise
            /\ hist' = [hist EXCEPT !.gcCalled = TRUE]
            /\ UNCHANGED gcV
       ELSE /\ alive' = Alive(now)
            /\ expand' = Alive(now)
            /\ closure' = {}
            /\ gcBatch' = 0
            /\ hist' = [hist EXCEPT !.gcBefore = fs, !.gcCalled = TRUE]
            /\ pc' = "gc_closure"
            /\ UNCHANGED <<exitCode, sweep, deleted>>
    /\ UNCHANGED <<diskV, envV, failure, cloneV, updV, poolV, dl>>

\* `nix path-info --store file://store` can answer for a batch only when the
\* narinfo of every path of its closure is in the local store and well-formed
LocalValid(batch) ==
    \A k \in 1..Len(PathInfoPaths(batch)) :
        fs[StoreFile(NarinfoName(hash_part(PathInfoPaths(batch)[k])))] = "good"

\* closure.add(hash_part(path)) for the lines of process.stdout
AddClosure(cl, lines) == cl \cup {hash_part(lines[k]) : k \in 1..Len(lines)}

\* the narinfo files the loop over the store directory visits
StoreRecords == {h \in Hashes : Exists(StoreFile(NarinfoName(h)))}

\* one batch of the local oracle for an alive release, the end of a release,
\* or the end of the loop: the statistics and the listing of the store
GcExpand ==
    /\ pc = "gc_closure"
    /\ IF expand = {}
       THEN IF SAVE_STATS /\ StatsDir \notin dirs
            THEN \* (stats_path / closure_cnt_file_name).open('w')
                 /\ GcRaise
                 /\ UNCHANGED <<gcV, faults>>
            ELSE /\ sweep' = StoreRecords
                 /\ deleted' = 0
                 /\ pc' = "gc_sweep"
                 /\ UNCHANGED <<exitCode, alive, closure, expand, gcBatch,
                                faults>>
       ELSE LET release == CHOOSE r \in expand : TRUE
                paths == StorePathsOf(release[1], release[2])
            IN  IF fs[RelFile(release[1], release[2], "store-paths.xz")]
                        # "good"
                THEN \* lzma.open(...) of a missing or damaged file
                     /\ GcRaise
                     /\ UNCHANGED <<gcV, faults>>
                ELSE IF gcBatch >= Len(paths)
                THEN /\ expand' = expand \ {release}
                     /\ gcBatch' = 0
                     /\ UNCHANGED <<pc, exitCode, alive, closure, sweep,
                                    deleted, faults>>
                ELSE /\ gcBatch' = gcBatch + PATH_BATCH
                     /\ \/ /\ LocalValid(Batch(paths, gcBatch))
                           /\ closure' = AddClosure(closure,
                                    PathInfoPaths(Batch(paths, gcBatch)))
                           /\ NoFault
                        \/ \* the oracle fails: nothing on stdout, and
                           \* process.returncode is not read
                           /\ IF LocalValid(Batch(paths, gcBatch))
                              THEN Fault ELSE NoFault
                           /\ closure' = closure
                     /\ UNCHANGED <<pc, exitCode, alive, expand, sweep,
                                    deleted>>
    /\ UNCHANGED <<diskV, cfgV, failure, cloneV, updV, poolV, dl, hist>>

\* parse_narinfo(path.read_text())['URL'] of the record of h: the text the
\* upstream cache serves for h
RecordURL(h) == NarinfoURL(h)

\* key, value = line.split(': ', 1) for every line of the text: a ValueError
\* for a line without ': '
NarinfoParses(text) == text = "good"

\* path.unlink() and (working_dir / STORE_DIR / narinfo['URL']).unlink(),
\* each in its own try
DeleteRecord(files, h) ==
    [files EXCEPT ![StoreFile(NarinfoName(h))] = "none",
                  ![StoreFile(NarName(RecordURL(h)))] = "none"]

\* a sweep that deletes whatever NIX_MIRROR_DELETE_OLD says
DeletionAlways == TRUE

\* if DELETE_OLD:
DeletionEnabled == DELETE_OLD

\* one entry of the store directory, or the end of garbage_collect()
GcSweep ==
    /\ pc = "gc_sweep"
    /\ IF sweep = {}
       THEN /\ pc' = "exit"
            /\ hist' = [hist EXCEPT !.gcRan = TRUE]
            /\ UNCHANGED <<fs, sweep, deleted, exitCode>>
       ELSE \E h \in sweep :
              /\ sweep' = sweep \ {h}
              /\ hist' = hist
              /\ IF h \in closure
                 THEN UNCHANGED <<fs, deleted, pc, exitCode>>
                 ELSE /\ deleted' = deleted + 1
                      /\ IF ~DeletionEnabled
                         THEN UNCHANGED <<fs, pc, exitCode>>
                         ELSE IF NarinfoParses(fs[StoreFile(NarinfoName(h))])
                         THEN /\ fs' = DeleteRecord(fs, h)
                              /\ UNCHANGED <<pc, exitCode>>
                         ELSE \* parse_narinfo() is called outside the try
                              /\ GcRaise
                              /\ fs' = fs
    /\ UNCHANGED <<dirs, live, staged, envV, failure, cloneV, updV, poolV, dl,
                   alive, closure, expand, gcBatch>>

(* ------------------------ exit and the next run ----------------------- *)

\* if failure: sys.exit(1)
Exit ==
    /\ pc = "exit"
    /\ exitCode' = IF failure THEN 1 ELSE 0
    /\ pc' = "exited"
    /\ UNCHANGED <<diskV, envV, failure, cloneV, updV, poolV, dl, gcV, hist>>

\* the channels move on upstream, time passes, and the process is started
\* again on the same working directory
NextRun ==
    /\ pc = "exited"
    /\ run < MaxRuns
    /\ run' = run + 1
    /\ now' \in {now, now + 2 * DayStep}
    /\ \E up \in [Channels -> Tags] :
          /\ \A c \in Channels : up[c] \in {upstream[c], upstream[c] + 1}
          /\ upstream' = up
          /\ hist' = NewHist(live, staged, hist.clean /\ exitCode = 0,
                             up # upstream)
    /\ pc' = "start"
    /\ failure' = FALSE
    /\ exitCode' = -1
    /\ chanIdx' = 0
    /\ channels_to_update' = <<>>
    /\ rowIdx' = 0
    /\ has_hash_fail' = FALSE
    /\ updIdx' = 0
    /\ has_cache_info' = FALSE
    /\ batchIdx' = 0
    /\ todo' = <<>>
    /\ seen_paths' = {}
    /\ channel_failure' = FALSE
    /\ jobs' = <<>>
    /\ worker' = [w \in Workers |-> IdleWorker]
    /\ resIdx' = 0
    /\ dl' = [t \in Threads |-> IdleDl]
    /\ alive' = {}
    /\ closure' = {}
    /\ expand' = {}
    /\ gcBatch' = 0
    /\ sweep' = {}
    /\ deleted' = 0
    /\ UNCHANGED <<COLLECT_GARBAGE, DELETE_OLD, faults, diskV>>

Next ==
    \/ MainStart
    \/ MainRaise
    \/ CloneChannel
    \/ CloneWriteTime
    \/ CloneRow
    \/ CloneVerify
    \/ CloneWriteMarker
    \/ CloneStage
    \/ CloneSymlink
    \/ UpdChannel
    \/ UpdInfoOpen
    \/ UpdInfoWrite
    \/ UpdReadPaths
    \/ UpdBatch
    \/ \E w \in Workers : WorkerTake(w)
    \/ \E w \in Workers : WorkerPath(w)
    \/ \E w \in Workers : WorkerDownloaded(w)
    \/ \E w \in Workers : WorkerRaised(w)
    \/ PoolResult
    \/ PoolJoin
    \/ UpdFinish
    \/ \E t \in Threads : Download(t)
    \/ GcScan
    \/ GcExpand
    \/ GcSweep
    \/ Exit
    \/ NextRun

Spec == Init /\ [][Next]_vars

\* a step of a process that has not exited: the interpreter runs the main
\* thread and the worker threads until the process ends
RunStep == Next /\ pc # "exited"

\* NIX_MIRROR_COLLECT_GARBAGE=1
InitGc == Init /\ COLLECT_GARBAGE

\* the runs with garbage collection enabled, under a scheduler that does not
\* stop a process that can move; whether the process is started again is
\* left open
FairSpec == InitGc /\ [][Next]_vars /\ WF_vars(RunStep)

(* --------------------- download() on its own -------------------------- *)

\* The state at a call download(url, dest) of the main thread, for every
\* destination and for a server that may fail every request.
InitDownload ==
    /\ run = 1
    /\ now = DayStep
    /\ upstream = [c \in Channels |-> 1]
    /\ COLLECT_GARBAGE = FALSE
    /\ DELETE_OLD = TRUE
    /\ faults = RetryTotal + 2
    /\ \E dest \in FinalPaths :
          /\ dl = [t \in Threads |-> IF t = Main THEN DlCall(dest) ELSE IdleDl]
          /\ \E old \in (IF dest[3] = "file" THEN {"none", "bad"} ELSE {"none"}) :
                fs = [p \in Paths |-> IF p = dest THEN old ELSE "none"]
          /\ dirs = {DirOf(dest)}
          /\ hist = Called(NewHist([c \in Channels |-> 0],
                                   [c \in Channels |-> 0], FALSE, TRUE), dest)
    /\ live = [c \in Channels |-> 0]
    /\ staged = [c \in Channels |-> 0]
    /\ pc = "download"
    /\ failure = FALSE
    /\ exitCode = -1
    /\ chanIdx = 0
    /\ channels_to_update = <<>>
    /\ rowIdx = 0
    /\ has_hash_fail = FALSE
    /\ updIdx = 0
    /\ has_cache_info = FALSE
    /\ batchIdx = 0
    /\ todo = <<>>
    /\ seen_paths = {}
    /\ channel_failure = FALSE
    /\ jobs = <<>>
    /\ worker = [w \in Workers |-> IdleWorker]
    /\ resIdx = 0
    /\ alive = {}
    /\ closure = {}
    /\ expand = {}
    /\ gcBatch = 0
    /\ sweep = {}
    /\ deleted = 0

NextDownload == DlGet(Main) \/ DlBodyOk(Main) \/ DlBodyFail(Main) \/ DlRename(Main)

SpecDownload == InitDownload /\ [][NextDownload]_vars

(* ------------------------------ properties ---------------------------- *)

HasMarker(c, t) == Exists(RelFile(c, t, "binary-cache-url"))

\* C1: in every reachable state, over any sequence of runs, a live pointer
\* working_dir/<channel> targets a release directory that holds the
\* completion marker binary-cache-url.
C1_LiveHasMarker ==
    \A c \in Channels :
        live[c] # 0 => /\ <<c, live[c]>> \in dirs
                       /\ HasMarker(c, live[c])

\* a run has repointed a live pointer, and a later run has started
C1_Witness ==
    /\ run > 1
    /\ \E c \in Channels : live[c] # 0 /\ live[c] = hist.prevLive[c]

JobFiles(job) == {StoreFile(job[k]) : k \in 1..Len(job)}

InPool == pc \in {"upd_pool", "upd_join", "upd_raise", "upd_finish"}

\* the mirroring of the channel in hand has failed: the oracle on a batch,
\* or a job
MirrorFailed ==
    \/ UpdChan \in hist.oracleFailed
    \/ \E k \in 1..Len(jobs) : jobs[k] \in {"False", "raised"}

\* C2: a step repoints the live pointer of a channel only in update_channels,
\* to the target of the staged pointer, when the oracle has answered every
\* batch and every file of every job is in the store; and once the oracle or
\* a job has failed for the channel in hand, no step changes its live or its
\* staged pointer.
C2_PromoteAfterMirror ==
    [][/\ \A c \in Channels :
            live'[c] # live[c] =>
                /\ pc = "upd_finish" /\ c = UpdChan
                /\ live'[c] = staged[c]
                /\ c \notin hist.oracleFailed
                /\ batchIdx >= Len(StorePathsOf(c, staged[c]))
                /\ Len(jobs) = Len(todo)
                /\ \A k \in 1..Len(todo) :
                      /\ jobs[k] = "True"
                      /\ \A f \in JobFiles(todo[k]) : Exists(f)
                /\ \A h \in SetOf(Dedup(Expand(StorePathsOf(c, staged[c]), 1), 1)) :
                      /\ Exists(StoreFile(NarinfoName(h)))
                      /\ Exists(StoreFile(NarName(NarinfoURL(h))))
       /\ (InPool /\ MirrorFailed) =>
            /\ live'[UpdChan] = live[UpdChan]
            /\ staged'[UpdChan] = staged[UpdChan]]_vars

\* a channel was promoted in this run, and another ended with a failed job
\* and both pointers as they were
C2_Witness ==
    /\ pc = "exited"
    /\ hist.promoted # {}
    /\ \E c \in hist.unpromoted : staged[c] # 0 /\ live[c] = hist.prevLive[c]

\* C3: once a downloaded file of a release page has a hash other than the
\* declared one, for the rest of the run no staged or live pointer targets
\* that release, the channel is not in channels_to_update, the failure flag is
\* set and the exit code is not 0, the file is at its destination with the
\* content that was downloaded, and download() was called once for it.
C3_HashMismatch ==
    \A f \in hist.badFiles :
        /\ staged[f[1]] # f[2]
        /\ live[f[1]] # f[2]
        /\ f[1] \notin SetOf(channels_to_update)
        /\ failure
        /\ pc = "exited" => exitCode = 1
        /\ fs[f] = "bad"
        /\ f \notin hist.recalled

C3_Witness ==
    /\ pc = "exited"
    /\ hist.badFiles # {}

Pointers == <<live, staged>>

\* C7 as stated: whenever a run follows another with no upstream change, it
\* ends with no call of download() and with the pointers the first one left.
C7_Idempotent ==
    (run > 1 /\ ~hist.upstreamChanged /\ pc = "exited") =>
        /\ hist.called = {}
        /\ Pointers = <<hist.prevLive, hist.prevStaged>>

\* C7, amended: when the first run ended with no failure of any kind (no
\* exception, no hash mismatch, no failed oracle call or job, exit code 0), a
\* second run with no upstream change never calls download() and never
\* changes a live or a staged pointer.
C7_IdempotentAfterSuccess ==
    (run > 1 /\ ~hist.upstreamChanged /\ hist.prevClean) =>
        /\ hist.called = {}
        /\ Pointers = <<hist.prevLive, hist.prevStaged>>

\* the second run has ended after a first run that promoted a channel
C7_Witness ==
    /\ run > 1 /\ ~hist.upstreamChanged /\ hist.prevClean
    /\ pc = "exited"
    /\ \E c \in Channels : live[c] # 0

\* a garbage_collect() pass with deletion enabled has ended
GcPassDone == hist.gcRan /\ DELETE_OLD

Before(path) == hist.gcBefore[path] # "none"
Record(h) == StoreFile(NarinfoName(h))
Payload(h) == StoreFile(NarName(NarinfoURL(h)))

\* C4: after a pass with deletion enabled, the metadata record and the
\* payload of every artifact of the re-expanded closure of the retained
\* releases are in the store if they were there before the pass.
C4_ClosureKept ==
    GcPassDone =>
        \A h \in closure :
            /\ Before(Record(h)) => Exists(Record(h))
            /\ Before(Payload(h)) => Exists(Payload(h))

\* the artifacts of the closure of a release, as the oracle lists them
ClosureSet(r) ==
    {hash_part(p) : p \in SetOf(PathInfoPaths(StorePathsOf(r[1], r[2])))}

\* C5: at the end of a pass, for every channel with a finished release, the
\* finished release with the greatest released time is in the retained set,
\* which is then not empty; its directory and marker are still there, and no
\* file of an artifact of its re-expanded closure was deleted.
C5_LatestRetained ==
    hist.gcRan =>
        \A c \in Channels : \A r \in Latest(c) :
            /\ r \in alive
            /\ alive # {}
            /\ DELETE_OLD =>
                  \A h \in ClosureSet(r) \cap closure :
                      /\ Before(Record(h)) => Exists(Record(h))
                      /\ Before(Payload(h)) => Exists(Payload(h))

\* the artifacts of the closures of the retained releases
RetainedClosure == UNION {ClosureSet(r) : r \in alive}

\* C6: after a pass with deletion enabled, no artifact outside the closures
\* of the retained releases is in the store: its metadata record is gone, and
\* so is its payload file, unless an artifact of those closures has the same
\* payload.
C6_GarbageGone ==
    GcPassDone =>
        \A h \in Hashes \ RetainedClosure :
            /\ ~Exists(Record(h))
            /\ (\A k \in RetainedClosure : Payload(k) # Payload(h))
                  => ~Exists(Payload(h))

\* C8: a download whose attempts all fail while the body is read (connection
\* error or size mismatch) ends after exactly RetryTotal attempts, with the
\* failure flag set and the destination as it was.
C8_RetryBudget ==
    (dl[Main].pc = "raised" /\ dl[Main].exc = "MaxRetryError") =>
        /\ dl[Main].attempts = RetryTotal
        /\ failure
        /\ dl[Main].dest \notin {p \in FinalPaths : fs[p] = "good"}

\* the files the program fetches: the files of a release page, the store
\* artifacts and nix-cache-info
FetchedPaths ==
    {RelFile(r[1], r[2], n) : r \in Releases,
                              n \in {"store-paths.xz", ".original-binary-cache-url"}}
        \cup {StoreFile(n) : n \in StoreNames}

\* C9: no fetched file is ever seen at its final name partially written.
C9_NoPartialFile == \A p \in FetchedPaths : fs[p] # "partial"

\* C10: a run in which a channel selected for mirroring ends without its
\* staged pointer being promoted exits with a status other than 0.
C10_ExitCode ==
    (pc = "exited" /\ hist.unpromoted # {}) => exitCode # 0

\* C11: with garbage collection enabled, every run that starts comes to call
\* garbage_collect(); a run in which the synchronization raised or set the
\* failure flag comes to its exit with garbage_collect() called and a status
\* other than 0; and no run ends without the call (the observations and the
\* failure flag start afresh with every run, so what a run comes to is its
\* own call and its own exit).
C11_GcAlwaysRuns ==
    /\ (pc = "start" /\ COLLECT_GARBAGE) ~> hist.gcCalled
    /\ (pc # "exited" /\ failure /\ COLLECT_GARBAGE)
          ~> (pc = "exited" /\ hist.gcCalled /\ exitCode # 0)
    /\ [](pc = "exited" /\ COLLECT_GARBAGE =>
            /\ hist.gcCalled
            /\ failure => exitCode # 0)

\* the synchronization raised, garbage_collect() ran to its end, and the
\* process exited with status 1
C11_Witness ==
    /\ pc = "exited" /\ COLLECT_GARBAGE
    /\ failure /\ ~hist.clean
    /\ hist.gcRan
    /\ exitCode = 1

\* C12: as long as the jobs of the pool have failed by connection errors and
\* size mismatches only, no job is cancelled; once the pool is closed every
\* job has run to its end and every file of a job that returned True is in
\* the store; and the channel has failed exactly when a job did not return
\* True.
C12_NoSiblingCancelled ==
    (hist.poolExc \subseteq {"ConnectionError", "WrongSize", "MaxRetryError"}) =>
        /\ \A k \in 1..Len(jobs) : jobs[k] # "cancelled"
        /\ (pc = "upd_finish" /\ UpdChan \notin hist.oracleFailed) =>
              /\ \A k \in 1..Len(jobs) :
                    /\ jobs[k] \in {"True", "False"}
                    /\ jobs[k] = "True" => \A f \in JobFiles(todo[k]) : Exists(f)
              /\ channel_failure <=> (\E k \in 1..Len(jobs) : jobs[k] # "True")

\* C13: at the end of a run, every channel that had no failure of its own in
\* the run and whose upstream release has a valid page has its live pointer
\* on that release.
C13_SiblingsProcessed ==
    pc = "exited" =>
        \A c \in Channels \ hist.failedChan :
            PageOf(c, upstream[c]) = "ok" => live[c] = upstream[c]

\* C14: every step of the loop over the store directory goes on with the
\* pass or ends it normally: none ends the process.
C14_SweepTolerates ==
    [][pc = "gc_sweep" => pc' \in {"gc_sweep", "exit"}]_vars

\* C15: a release directory that holds the completion marker holds no
\* manifest file whose hash differs from the declared one, and a staged
\* pointer targets a release directory that holds the marker.
C15_MarkerMeansVerified ==
    /\ \A r \in Releases :
          HasMarker(r[1], r[2]) =>
              \A n \in RelNames : fs[RelFile(r[1], r[2], n)] # "bad"
    /\ \A c \in Channels : staged[c] # 0 => HasMarker(c, staged[c])

\* C16: in every state, the metadata record of an artifact is in the store
\* exactly when its payload file is.
C16_PairedArtifacts ==
    \A h \in Hashes : Exists(Record(h)) <=> Exists(Payload(h))

InClone == pc \in {"clone_loop", "clone_time", "clone_rows", "clone_dl",
                   "clone_marker", "clone_stage", "clone_symlink"}

\* C17: no step of clone_channels changes a pointer, a file or a directory
\* of a channel whose live pointer, or else whose staged pointer, is on the
\* release its upstream redirect names, nor calls download() for it; the
\* first kind of channel is never in channels_to_update, and the second kind
\* is in it when clone_channels returns.
C17_ResumeFrame ==
    [][InClone =>
        \A c \in Channels :
            LET settled == live[c] = upstream[c]
                ready == ~settled /\ staged[c] = upstream[c]
            IN  (settled \/ ready) =>
                  /\ live'[c] = live[c]
                  /\ staged'[c] = staged[c]
                  /\ \A p \in Paths : p[1] = c => fs'[p] = fs[p]
                  /\ {d \in dirs' : d[1] = c} = {d \in dirs : d[1] = c}
                  /\ \A p \in hist'.called \ hist.called : p[1] # c
                  /\ settled => c \notin SetOf(channels_to_update')
                  /\ (ready /\ pc' = "upd_loop") =>
                        c \in SetOf(channels_to_update')]_vars

\* clone_channels has returned in a run that found one channel with its live
\* pointer and another with its staged pointer on the upstream release
C17_Witness ==
    /\ run > 1 /\ pc = "upd_loop" /\ updIdx = 1
    /\ \E c, d \in Channels :
          /\ live[c] = upstream[c] /\ hist.prevLive[c] = live[c]
          /\ live[d] # upstream[d]
          /\ staged[d] = upstream[d] /\ hist.prevStaged[d] = staged[d]
          /\ channels_to_update = <<d>>

\* the files of the store directory
StorePaths == {p \in Paths : p[1] = "store"}

\* C18: with deletion disabled, from the start of a pass to the end of the
\* run every file of the store is as it was before the pass, and at the end
\* of the pass the count of unreachable records is the number of metadata
\* records of the store whose hash is not in the computed closure.
C18_DryRun ==
    (~DELETE_OLD /\ (pc \in {"gc_closure", "gc_sweep"} \/ hist.gcRan)) =>
        /\ \A p \in StorePaths : fs[p] = hist.gcBefore[p]
        /\ hist.gcRan =>
              deleted = Cardinality({h \in Hashes :
                            Before(Record(h)) /\ h \notin closure})

\* a pass with deletion disabled has ended and has counted unreachable records
C18_Witness ==
    /\ ~DELETE_OLD /\ hist.gcRan
    /\ deleted > 0
    /\ \E h \in Hashes \ closure : Exists(Record(h)) /\ Exists(Payload(h))

\* the threads of the pool that are inside download()
Downloading == {w \in Workers : dl[w].pc # "idle"}

\* C19: no job of the list of a channel is empty, no file name is in two
\* jobs or twice in one job, and two threads of the pool that are inside
\* download() at the same time have different destinations and different
\* temporary files.
C19_DisjointJobs ==
    /\ \A k \in 1..Len(todo) : todo[k] # <<>>
    /\ \A j, k \in 1..Len(todo) : \A a \in 1..Len(todo[j]) :
          \A b \in 1..Len(todo[k]) :
             todo[j][a] = todo[k][b] => (j = k /\ a = b)
    /\ \A v, w \in Downloading :
          v # w => /\ dl[v].dest # dl[w].dest
                   /\ TmpOf(dl[v].dest) # TmpOf(dl[w].dest)

\* two threads of the pool are inside download() for a list that covers two
\* artifacts with the same NAR
C19_Witness ==
    /\ pc = "upd_pool"
    /\ Cardinality(Downloading) = 2
    /\ \E g, h \in Hashes :
          /\ g # h /\ NarinfoURL(g) = NarinfoURL(h)
          /\ \E j, k \in 1..Len(todo) :
                /\ j # k
                /\ NarinfoName(g) \in SetOf(todo[j])
                /\ NarinfoName(h) \in SetOf(todo[k])
                /\ NarName(NarinfoURL(g)) \in SetOf(todo[j])

\* C20: after a pass with deletion enabled, the metadata record of every
\* artifact of the true closure of a retained release is in the store if it
\* was there before the pass, whether or not the oracle succeeded for the
\* batches of that release.
C20_OracleFailureKeeps ==
    GcPassDone =>
        \A r \in alive : \A h \in ClosureSet(r) :
            Before(Record(h)) => Exists(Record(h))

====
